---- MODULE Spec2Model ----
(***************************************************************************)
(* Report export pipeline of the server's export service                   *)
(* (src/unnamed/part_007): the six export functions exportOrders ..        *)
(* exportVendors, the four renderers exportToCsv, exportToExcel,           *)
(* exportToPdf, exportToJson, and the two staging helpers generateFilename *)
(* and ensureExportDirectory.                                              *)
(*                                                                         *)
(* The service runs on a single-threaded event loop.  One action of this   *)
(* module is one run-to-completion block of the code: the code between two *)
(* awaits of a call, or one I/O completion callback of a write stream.     *)
(* The data source, the filesystem, the clock and the faults they may      *)
(* raise are the environment: they are chosen nondeterministically.        *)
(***************************************************************************)
EXTENDS Integers, Sequences, FiniteSets, TLC

\* ------------------------------------------------------------------ bounds
MaxRows == 1        \* rows the data source returns to one query
MaxTime == 1        \* milliseconds that pass during a run

\* Two export calls in flight: the least number that interleaves
Calls == {1, 2}
Times == 0..MaxTime

\* ---------------------------------------------------------- enumerations
\* enum ExportFormat
CSV == "csv"
EXCEL == "excel"
PDF == "pdf"
JSON == "json"
ExportFormat == {CSV, EXCEL, PDF, JSON}

\* A format argument outside the enum, as in export(Orders, "xml")
XML == "xml"
FormatArgs == ExportFormat \cup {XML}

\* The members of enum ExportDataType that have an export function
ExportDataType == {"orders", "products", "customers", "sales", "inventory", "vendors"}

\* --------------------------------------------------------------- values
NoPath == <<>>
Pending == [tag |-> "pending"]
Resolved(p) == [tag |-> "resolved", value |-> p]
Rejected(e) == [tag |-> "rejected", error |-> e]

\* new ApiError(message, statusCode)
ApiError(message, statusCode) ==
    [name |-> "ApiError", message |-> message, statusCode |-> statusCode]

\* An error thrown below the service: by the data source, the filesystem,
\* a library or a value's toString
LowError(message) == [name |-> "Error", message |-> message]

\* The same of another class (TypeError, ...)
NamedError(name, message) == [name |-> name, message |-> message]

\* No error
NoError == [name |-> "none"]

\* The classes of the errors a library throws on data it cannot handle
ErrorNames == {"Error", "TypeError"}

\* The rows a query returns: row i of the answer to call c
Row(c, i) == <<c, i>>
QueryRows(c, n) == [i \in 1..n |-> Row(c, i)]

\* -------------------------------------------------------------- encodings
\* What a renderer writes, as a sequence of chunks: a preamble, one chunk
\* per row in the order of the data, and (paginated document, structured
\* dump) a trailer.
\* Chunks are pairs like the rows; the pairs with first component 0 are the
\* chunks that are not rows.
HEAD == <<0, 0>>
TAIL == <<0, 1>>
HOLE == <<0, 2>>

Encode(fmt, data) ==
    CASE fmt = CSV   -> <<HEAD>> \o data
      [] fmt = EXCEL -> <<HEAD>> \o data
      [] fmt = PDF   -> <<HEAD>> \o data \o <<TAIL>>
      [] fmt = JSON  -> <<HEAD>> \o data \o <<TAIL>>

\* The data rows of a file's content, parsed back
IsRowChunk(x) == x \notin {HEAD, TAIL}
ParseRows(content) == SelectSeq(content, IsRowChunk)

\* An evaluation of a pure part of the service: the function, its arguments
\* and its value
NoEval == [fn |-> "none"]
NoEvals == [prev |-> NoEval, last |-> NoEval]

\* ------------------------------------------------------------------ state
VARIABLES
    pc,         \* pc[c]: where call c stands
    kind,       \* kind[c]: the report kind of call c
    format,     \* format[c]: its format argument
    rows,       \* rows[c]: the formatted rows its assembler produced
    result,     \* result[c]: the promise the call returned
    path,       \* path[c]: filePath of its renderer, NoPath before
    stream,     \* stream[c]: state of its write stream
    buf,        \* buf[c]: chunks handed to the stream so far
    pos,        \* pos[c]: chunks the stream has written to its descriptor
    ended,      \* ended[c]: end() was called on the stream's source
    listeners,  \* listeners[c]: events of the stream the call listens to
    hist,       \* hist[c]: the call's events so far, in order
    dirExists,  \* the export directory exists
    files,      \* files[p]: content of the file at path p, for existing p
    now,        \* the clock, in milliseconds
    cause,      \* cause[c]: the error raised below the service's own code
                \* (data source, filesystem, library) that failed call c
    eval        \* the last two evaluations of the service's pure parts

vars == <<pc, kind, format, rows, result, path, stream, buf, pos, ended,
          listeners, hist, dirExists, files, now, cause, eval>>

streamVars == <<stream, buf, pos, ended, listeners>>

Init ==
    /\ pc = [c \in Calls |-> "idle"]
    /\ kind = [c \in Calls |-> "orders"]
    /\ format = [c \in Calls |-> CSV]
    /\ rows = [c \in Calls |-> <<>>]
    /\ result = [c \in Calls |-> Pending]
    /\ path = [c \in Calls |-> NoPath]
    /\ stream = [c \in Calls |-> "none"]
    /\ buf = [c \in Calls |-> <<>>]
    /\ pos = [c \in Calls |-> 0]
    /\ ended = [c \in Calls |-> FALSE]
    /\ listeners = [c \in Calls |-> {}]
    /\ hist = [c \in Calls |-> <<>>]
    /\ dirExists = FALSE
    /\ files = [p \in {} |-> <<>>]
    /\ now = 0
    /\ cause = [c \in Calls |-> NoError]
    /\ eval = NoEvals

\* ---------------------------------------------------------------- helpers
Count(h, e) == Cardinality({i \in 1..Len(h) : h[i] = e})

\* The first index of event e in h, 0 when absent
First(h, e) ==
    IF \E i \in 1..Len(h) : h[i] = e
    THEN CHOOSE i \in 1..Len(h) : h[i] = e /\ \A j \in 1..(i - 1) : h[j] # e
    ELSE 0

\* The events of a call that belong to rendering: entering a renderer, creating
\* the directory, generating the filename, opening a write stream, writing
RenderEvents == {"render", "mkdir", "filename", "open", "write"}

\* The call settles: its promise is resolved or rejected
Settle(c, r, h) ==
    /\ pc' = [pc EXCEPT ![c] = "done"]
    /\ result' = [result EXCEPT ![c] = r]
    /\ hist' = [hist EXCEPT ![c] = h \o <<IF r.tag = "resolved" THEN "resolve" ELSE "reject">>]

\* catch of a renderer: throw new ApiError(`${label}: ${error.message}`, 500)
Wrap(label, error) == ApiError(<<label, error.message>>, 500)

\* return exportToCsv(...) etc. in the switch of an export function: the
\* function's promise takes the outcome of the renderer's promise
ReturnRenderer(r) == r

\* Variant of Rethrow: the catch throws an error of its own
RethrowReplaced(error) == ApiError(<<"Export failed", "wrapped">>, 500)

\* catch of an export function: logger.error, throw error
Rethrow(error) == error

\* A renderer returns filePath
Return(c, filePath, h) ==
    /\ Settle(c, ReturnRenderer(Resolved(filePath)), h)
    /\ cause' = cause

\* A renderer catches error and throws the ApiError that wraps it
Throw(c, label, error, h) ==
    /\ Settle(c, ReturnRenderer(Rejected(Wrap(label, error))), h)
    /\ cause' = [cause EXCEPT ![c] = error]

\* ---------------------------------------------------------------- staging
\* new Date().toISOString() at clock reading t (milliseconds after the epoch,
\* below one second): YYYY-MM-DDTHH:mm:ss.sssZ, as its sequence of tokens
ToISOString(t) ==
    <<"1970", "-", "01", "-", "01", "T", "00", ":", "00", ":", "00", ".", ToString(t), "Z">>

\* .replace(/[:.]/g, "-")
ReplaceSeparators(s) ==
    [i \in 1..Len(s) |-> IF s[i] \in {":", "."} THEN "-" ELSE s[i]]

\* Variant of FilenameOf: the name leaves the data type out
FilenameWithoutKind(dataType, timestamp, fmt) ==
    [dataType |-> "data", timestamp |-> timestamp, ext |-> fmt]

\* `${dataType}-export-${timestamp}.${format}`: the name's three variable parts
FilenameOf(dataType, timestamp, fmt) ==
    [dataType |-> dataType, timestamp |-> timestamp, ext |-> fmt]

\* generateFilename: `${dataType}-export-${timestamp}.${format}`, the timestamp
\* being the clock's reading in milliseconds
GenerateFilename(dataType, fmt) ==
    FilenameOf(dataType, ReplaceSeparators(ToISOString(now)), fmt)

\* Variant of EnsureExportDirectory: the directory is looked for, never made
EnsureWithoutMkdir == dirExists' = dirExists

\* ensureExportDirectory: mkdirSync when existsSync says the directory is absent
EnsureExportDirectory == dirExists' = TRUE

\* the event ensureExportDirectory adds to the caller's history
MkdirEvents == IF dirExists THEN <<>> ELSE <<"mkdir">>

\* --------------------------------------------------------------- filesystem
\* HOLE is what a file holds where nothing was written.
\* open(path, 'w') followed by one write of the whole content
WriteFile(p, content) == (p :> content) @@ files

\* open(path, 'w'): creates the file or truncates it
Truncate(p) == (p :> <<>>) @@ files

\* A positional write of one chunk at offset i (1-based) of an open file; a
\* write past the end of the file leaves a hole before it
PWrite(p, i, x) ==
    LET old == files[p]
        padded == old \o [j \in 1..(i - 1 - Len(old)) |-> HOLE]
    IN  IF i <= Len(old)
        THEN (p :> [old EXCEPT ![i] = x]) @@ files
        ELSE (p :> Append(padded, x)) @@ files

\* fs.writeFileSync(filePath, content) of exportToCsv and exportToJson, and the
\* return or the catch that follows it.  The write succeeds, fails before the
\* file is opened (the namespace is untouched), or fails after the file was
\* opened and a strict prefix of the content was written.
WriteFileSync(c, filePath, content, label, h) ==
    \/ /\ files' = WriteFile(filePath, content)
       /\ Return(c, filePath, h)
    \/ /\ files' = files
       /\ Throw(c, label, LowError("EACCES"), Append(h, "write_error"))
    \/ \E k \in 0..(Len(content) - 1) :
       /\ files' = WriteFile(filePath, SubSeq(content, 1, k))
       /\ Throw(c, label, LowError("ENOSPC"), Append(h, "write_error"))

\* ---------------------------------------------------------------- renderers
\* Variant of AfterRender: the row loop takes the rows off the array
\* (data.shift()) as it renders them
AfterRenderShifted(data) == <<>>

\* The array data as a renderer leaves it: parser.parse(data), data.forEach,
\* fields.map and JSON.stringify(data) read it and assign nothing to it or to
\* its rows
AfterRender(data) == data

\* exportToCsv: parse, ensure the directory, generate the filename, write
ExportToCsv(c, data, dataType, h) ==
    LET label == "Failed to export data to CSV"
        filePath == GenerateFilename(dataType, CSV)
        h1 == Append(h, "render")
    IN
    /\ UNCHANGED streamVars
    /\ \/ \* new Parser({ fields }) or parser.parse(data) throws
          /\ \E nm \in ErrorNames : Throw(c, label, NamedError(nm, "parse"), h1)
          /\ UNCHANGED <<path, dirExists, files>>
       \/ \* mkdirSync throws
          /\ ~dirExists
          /\ Throw(c, label, LowError("mkdir"), h1)
          /\ UNCHANGED <<path, dirExists, files>>
       \/ /\ EnsureExportDirectory
          /\ path' = [path EXCEPT ![c] = filePath]
          /\ WriteFileSync(c, filePath, Encode(CSV, data), label,
                           h1 \o MkdirEvents \o <<"filename", "write">>)

\* exportToJson: ensure the directory, generate the filename, stringify, write
ExportToJson(c, data, dataType, h) ==
    LET label == "Failed to export data to JSON"
        filePath == GenerateFilename(dataType, JSON)
        h1 == Append(h, "render")
    IN
    /\ UNCHANGED streamVars
    /\ \/ \* mkdirSync throws
          /\ ~dirExists
          /\ Throw(c, label, LowError("mkdir"), h1)
          /\ UNCHANGED <<path, dirExists, files>>
       \/ /\ EnsureExportDirectory
          /\ path' = [path EXCEPT ![c] = filePath]
          /\ WriteFileSync(c, filePath, Encode(JSON, data), label,
                           h1 \o MkdirEvents \o <<"filename", "write">>)

\* The call suspends at an await on the completion of its write stream
Suspend(c, h) ==
    /\ pc' = [pc EXCEPT ![c] = "waiting"]
    /\ result' = result
    /\ hist' = [hist EXCEPT ![c] = h]
    /\ cause' = cause

\* fs.createWriteStream(filePath): the stream is created; the file is opened
\* later, by the event loop
CreateWriteStream(c, chunks, isEnded, ls) ==
    /\ stream' = [stream EXCEPT ![c] = "opening"]
    /\ buf' = [buf EXCEPT ![c] = chunks]
    /\ pos' = [pos EXCEPT ![c] = 0]
    /\ ended' = [ended EXCEPT ![c] = isEnded]
    /\ listeners' = [listeners EXCEPT ![c] = ls]

\* exportToExcel: build the workbook, ensure the directory, generate the
\* filename, await workbook.xlsx.writeFile(filePath), which creates a write
\* stream, listens to its finish and error events and ends it after the
\* workbook's content
ExportToExcel(c, data, dataType, h) ==
    LET label == "Failed to export data to Excel"
        filePath == GenerateFilename(dataType, EXCEL)
        h1 == Append(h, "render")
    IN
    /\ files' = files
    /\ \/ \* building the workbook throws
          /\ Throw(c, label, LowError("workbook"), h1)
          /\ UNCHANGED <<path, dirExists, streamVars>>
       \/ \* mkdirSync throws
          /\ ~dirExists
          /\ Throw(c, label, LowError("mkdir"), h1)
          /\ UNCHANGED <<path, dirExists, streamVars>>
       \/ /\ EnsureExportDirectory
          /\ path' = [path EXCEPT ![c] = filePath]
          /\ CreateWriteStream(c, Encode(EXCEL, data), TRUE, {"finish", "error"})
          /\ Suspend(c, h1 \o MkdirEvents \o <<"filename", "write", "open">>)

\* Variant of PdfListeners: the 'error' listener is forgotten
PdfListenersFinishOnly == {"finish"}

\* The listeners exportToPdf attaches to its write stream
PdfListeners == {"finish", "error"}

\* Variant of AwaitStream: the promise is not awaited, the path is returned at
\* once
ReturnWithoutAwait(c, filePath, h) == Return(c, filePath, h)

\* exportToPdf: await new Promise(...): the call waits for the stream
AwaitStream(c, filePath, h) == Suspend(c, h)

\* exportToPdf: ensure the directory, generate the filename, create the stream,
\* pipe the document into it, draw the title, the header band, the rows and
\* the footer, end the document, attach the listeners and wait
ExportToPdf(c, data, dataType, h) ==
    LET label == "Failed to export data to PDF"
        filePath == GenerateFilename(dataType, PDF)
        h1 == Append(h, "render")
        h2 == h1 \o MkdirEvents \o <<"filename", "write", "open">>
    IN
    /\ files' = files
    /\ \/ \* mkdirSync throws
          /\ ~dirExists
          /\ Throw(c, label, LowError("mkdir"), h1)
          /\ UNCHANGED <<path, dirExists, streamVars>>
       \/ \* drawing throws after k rows: doc.end() is not reached, no listener
          \* is attached, and what was drawn stays piped into the open stream
          \E k \in 0..Len(data) :
          /\ EnsureExportDirectory
          /\ path' = [path EXCEPT ![c] = filePath]
          /\ CreateWriteStream(c, <<HEAD>> \o SubSeq(data, 1, k), FALSE, {})
          /\ Throw(c, label, LowError("draw"), Append(h2, "draw_error"))
       \/ /\ EnsureExportDirectory
          /\ path' = [path EXCEPT ![c] = filePath]
          /\ CreateWriteStream(c, Encode(PDF, data), TRUE, PdfListeners)
          /\ AwaitStream(c, filePath, h2)

\* ------------------------------------------------------------ orchestration
\* Variant of Dispatch: the switch has no default case of its own, an
\* unrecognised format falls into the last renderer
DispatchWithoutDefault(c, fmt, data, dataType, h) ==
    \/ fmt = CSV /\ ExportToCsv(c, data, dataType, h)
    \/ fmt = EXCEL /\ ExportToExcel(c, data, dataType, h)
    \/ fmt = PDF /\ ExportToPdf(c, data, dataType, h)
    \/ fmt \notin {CSV, EXCEL, PDF} /\ ExportToJson(c, data, dataType, h)

\* switch (format) of the export functions; the ApiError of the default case
\* is caught by the function's catch, logged and thrown again
Dispatch(c, fmt, data, dataType, h) ==
    \/ fmt = CSV /\ ExportToCsv(c, data, dataType, h)
    \/ fmt = EXCEL /\ ExportToExcel(c, data, dataType, h)
    \/ fmt = PDF /\ ExportToPdf(c, data, dataType, h)
    \/ fmt = JSON /\ ExportToJson(c, data, dataType, h)
    \/ /\ fmt \notin ExportFormat
       /\ Settle(c, Rejected(Rethrow(ApiError(<<"Unsupported export format", fmt>>, 400))), h)
       /\ UNCHANGED <<path, dirExists, files, streamVars, cause>>

\* The report kinds a new call is made for.  The six export functions differ in
\* the query they build and the rows they format, not in their control flow;
\* here a kind is the dataType string handed to the renderer, which is only
\* ever compared with another call's, so the runs are the same up to a renaming
\* of the kinds.  A call is made for a kind already in use or for one that is
\* not.
KindsInUse == {kind[d] : d \in {x \in Calls : pc[x] # "idle"}}
KindChoices ==
    KindsInUse \cup {CHOOSE k \in ExportDataType : k \notin KindsInUse}

\* Variant of Export: the query is issued but not awaited, the switch runs at
\* once on an empty row list
ExportWithoutAwait(c, dataType, fmt) ==
    /\ pc[c] = "idle"
    /\ kind' = [kind EXCEPT ![c] = dataType]
    /\ format' = [format EXCEPT ![c] = fmt]
    /\ Dispatch(c, fmt, <<>>, dataType, Append(hist[c], "query"))
    /\ UNCHANGED <<rows, now, eval>>

\* exportOrders, exportProducts, exportCustomers, exportSales, exportInventory,
\* exportVendors up to their await: the query is built and issued
Export(c, dataType, fmt) ==
    /\ pc[c] = "idle"
    /\ pc' = [pc EXCEPT ![c] = "fetching"]
    /\ kind' = [kind EXCEPT ![c] = dataType]
    /\ format' = [format EXCEPT ![c] = fmt]
    /\ hist' = [hist EXCEPT ![c] = Append(@, "query")]
    /\ UNCHANGED <<rows, result, path, streamVars, dirExists, files, now, cause, eval>>

\* The query returns n rows: the rows are formatted, the field list is built
\* and the switch runs.  The block reads the clock at `now`; by the time the
\* event loop runs its next block the clock shows t.
FetchResolve(c, n, t) ==
    /\ pc[c] = "fetching"
    /\ rows' = [rows EXCEPT ![c] = AfterRender(QueryRows(c, n))]
    /\ Dispatch(c, format[c], QueryRows(c, n), kind[c], Append(hist[c], "rows"))
    /\ now' = t
    /\ UNCHANGED <<kind, format, eval>>

\* Variant of FetchReject: the catch swallows the error and the export goes on
\* with no rows
FetchRejectSwallowed(c) ==
    /\ pc[c] = "fetching"
    /\ Dispatch(c, format[c], <<>>, kind[c], Append(hist[c], "query_error"))
    /\ UNCHANGED <<kind, format, rows, now, eval>>

\* Variant of FetchReject: the catch issues the query once more
FetchRejectRetried(c) ==
    /\ pc[c] = "fetching"
    /\ IF Count(hist[c], "query") < 2
       THEN /\ hist' = [hist EXCEPT ![c] = @ \o <<"query_error", "query">>]
            /\ UNCHANGED <<pc, result>>
       ELSE Settle(c, Rejected(Rethrow(LowError("query failed"))), Append(hist[c], "query_error"))
    /\ cause' = [cause EXCEPT ![c] = LowError("query failed")]
    /\ UNCHANGED <<kind, format, rows, path, streamVars, dirExists, files, now, eval>>

\* The query fails: catch, logger.error, throw error
FetchReject(c) ==
    /\ pc[c] = "fetching"
    /\ Settle(c, Rejected(Rethrow(LowError("query failed"))), Append(hist[c], "query_error"))
    /\ cause' = [cause EXCEPT ![c] = LowError("query failed")]
    /\ UNCHANGED <<kind, format, rows, path, streamVars, dirExists, files, now, eval>>

\* ------------------------------------------------------------ write streams
\* Variant of Emit: the event is emitted before a listener is attached and
\* is lost
EmitBeforeListening(c, e, label) ==
    /\ hist' = [hist EXCEPT ![c] = Append(@, e)]
    /\ UNCHANGED <<pc, result, cause>>

\* What the call does when its stream emits event e: a listener of the call's
\* promise resolves or rejects it and the call continues (return filePath, or
\* the catch that throws the ApiError); without a listener the call does not
\* see the event.
Emit(c, e, label) ==
    IF pc[c] = "waiting" /\ e \in listeners[c]
    THEN IF e = "finish"
         THEN Return(c, path[c], Append(hist[c], e))
         ELSE Throw(c, label, LowError("EIO"), Append(hist[c], e))
    ELSE /\ hist' = [hist EXCEPT ![c] = Append(@, e)]
         /\ UNCHANGED <<pc, result, cause>>

FailLabel(c) ==
    IF format[c] = PDF THEN "Failed to export data to PDF"
    ELSE "Failed to export data to Excel"

\* The stream's file is opened with flag 'w': created, or truncated
StreamOpen(c) ==
    /\ stream[c] = "opening"
    /\ stream' = [stream EXCEPT ![c] = "open"]
    /\ files' = Truncate(path[c])
    /\ UNCHANGED <<pc, kind, format, rows, result, path, buf, pos, ended,
                   listeners, hist, dirExists, now, cause, eval>>

\* The stream writes its next chunk at its own offset in the file
StreamWrite(c) ==
    /\ stream[c] = "open"
    /\ pos[c] < Len(buf[c])
    /\ files' = PWrite(path[c], pos[c] + 1, buf[c][pos[c] + 1])
    /\ pos' = [pos EXCEPT ![c] = @ + 1]
    /\ UNCHANGED <<pc, kind, format, rows, result, path, stream, buf, ended,
                   listeners, hist, dirExists, now, cause, eval>>

\* The stream was ended and has written everything: it emits 'finish'
StreamFinish(c) ==
    /\ stream[c] = "open"
    /\ ended[c]
    /\ pos[c] = Len(buf[c])
    /\ stream' = [stream EXCEPT ![c] = "finished"]
    /\ Emit(c, "finish", FailLabel(c))
    /\ UNCHANGED <<kind, format, rows, path, buf, pos, ended, listeners,
                   dirExists, files, now, eval>>

\* Opening or writing fails: the stream emits 'error'
StreamError(c) ==
    /\ stream[c] \in {"opening", "open"}
    /\ stream' = [stream EXCEPT ![c] = "errored"]
    /\ Emit(c, "error", FailLabel(c))
    /\ UNCHANGED <<kind, format, rows, path, buf, pos, ended, listeners,
                   dirExists, files, now, eval>>

Next ==
    \/ \E c \in Calls, dataType \in KindChoices, fmt \in FormatArgs :
         Export(c, dataType, fmt)
    \/ \E c \in Calls, n \in 0..MaxRows, t \in now..MaxTime : FetchResolve(c, n, t)
    \/ \E c \in Calls : FetchReject(c)
    \/ \E c \in Calls : StreamOpen(c)
    \/ \E c \in Calls : StreamWrite(c)
    \/ \E c \in Calls : StreamFinish(c)
    \/ \E c \in Calls : StreamError(c)

Spec == Init /\ [][Next]_vars

\* The event loop runs every I/O callback that is due: a stream that can open
\* its file, write a chunk or finish does so unless it fails first
StreamProgress(c) ==
    /\ WF_vars(StreamOpen(c))
    /\ WF_vars(StreamWrite(c))
    /\ WF_vars(StreamFinish(c))

SpecLive == Spec /\ \A c \in Calls : StreamProgress(c)

\* ------------------------------------------------------- filters and queries
\* The length of the default sales window, in days (30 * 24 * 60 * 60 * 1000 ms)
ThirtyDays == 30

\* A time: getTime() = day * 86400000 + ms, as whole days and the milliseconds
\* of the day. new Date() at clock reading t:
DateOf(t) == [day |-> 0, ms |-> t]

\* new Date(d.getTime() - 30 * 24 * 60 * 60 * 1000)
MinusThirtyDays(d) == [day |-> d.day - ThirtyDays, ms |-> d.ms]

DateLeq(a, b) == a.day < b.day \/ (a.day = b.day /\ a.ms <= b.ms)

NumLeq(a, b) == a <= b

\* The values a caller puts into a filter: a number, a numeric string (of a
\* query string), a date
NumV(n) == [type |-> "number", num |-> n]
StrV(n) == [type |-> "string", num |-> n]
DateV(d) == [type |-> "date", date |-> d]

\* JavaScript's truthiness of such a value: of these only the number 0 is falsy
Truthy(v) == ~(v.type = "number" /\ v.num = 0)

\* Number(v)
Number(v) == v.num

\* new Date(v)
NewDate(v) == v.date

\* A filter is the set of its values: empty when the caller left it out
Supplied(x) == x # {}
Val(x) == CHOOSE v \in x : TRUE

\* `filters.x &&`, `filters.x ?`
IsTruthy(x) == Supplied(x) /\ Truthy(Val(x))

\* The constraint of a query on one attribute: its bounds, each absent or one
\* value
Unbounded == [gte |-> {}, gt |-> {}, lte |-> {}]

NoWhere ==
    [createdAt |-> Unbounded, price |-> Unbounded, quantity |-> Unbounded,
     role |-> {}, isActive |-> {}]

\* if (filters.startDate && filters.endDate) where.createdAt = { gte, lte }
CreatedAtRange(filters) ==
    IF IsTruthy(filters.startDate) /\ IsTruthy(filters.endDate)
    THEN [Unbounded EXCEPT !.gte = {NewDate(Val(filters.startDate))},
                     !.lte = {NewDate(Val(filters.endDate))}]
    ELSE Unbounded

\* where.quantity = filters.inStock === "true" ? { gt: 0 } : { lte: 0 }
InStockConstraint(filters) ==
    IF Val(filters.inStock) = "true"
    THEN [Unbounded EXCEPT !.gt = {0}]
    ELSE [Unbounded EXCEPT !.lte = {0}]

\* exportOrders: the where of its findMany
OrdersWhere(filters) == [NoWhere EXCEPT !.createdAt = CreatedAtRange(filters)]

\* where.isActive = filters.isActive === "true", when the filter is supplied
IsActiveConstraint(filters) == {v = "true" : v \in filters.isActive}

\* Variant of CustomersWhere: the where starts empty and takes the role the
\* caller sends
CustomersWhereRoleFromFilters(filters) ==
    [NoWhere EXCEPT !.role = filters.role,
                    !.createdAt = CreatedAtRange(filters),
                    !.isActive = IsActiveConstraint(filters)]

\* exportCustomers: the where of its findMany
CustomersWhere(filters) ==
    [NoWhere EXCEPT !.role = {"CUSTOMER"},
                    !.createdAt = CreatedAtRange(filters),
                    !.isActive = IsActiveConstraint(filters)]

\* exportVendors: the where of its findMany
VendorsWhere(filters) == [NoWhere EXCEPT !.createdAt = CreatedAtRange(filters)]

\* exportProducts: the where of its findMany
ProductsWhere(filters) ==
    [NoWhere EXCEPT
        !.price =
            IF IsTruthy(filters.minPrice) /\ IsTruthy(filters.maxPrice)
            THEN [Unbounded EXCEPT !.gte = {Number(Val(filters.minPrice))},
                             !.lte = {Number(Val(filters.maxPrice))}]
            ELSE IF IsTruthy(filters.minPrice)
            THEN [Unbounded EXCEPT !.gte = {Number(Val(filters.minPrice))}]
            ELSE IF IsTruthy(filters.maxPrice)
            THEN [Unbounded EXCEPT !.lte = {Number(Val(filters.maxPrice))}]
            ELSE Unbounded,
        !.quantity =
            IF Supplied(filters.inStock) THEN InStockConstraint(filters) ELSE Unbounded]

\* exportInventory: the where of its findMany; each if assigns where.quantity
InventoryWhere(filters) ==
    LET q1 == IF Supplied(filters.minQuantity)
              THEN [Unbounded EXCEPT !.gte = {Number(Val(filters.minQuantity))}]
              ELSE Unbounded
        q2 == IF Supplied(filters.maxQuantity)
              THEN [q1 EXCEPT !.lte = {Number(Val(filters.maxQuantity))}]
              ELSE q1
        q3 == IF Supplied(filters.inStock) THEN InStockConstraint(filters) ELSE q2
    IN [NoWhere EXCEPT !.quantity = q3]

\* Variant of SalesWhere: the default start is thirty days before the clock's
\* reading, not before endDate
SalesWhereFromNow(filters, t) ==
    LET endDate == IF IsTruthy(filters.endDate) THEN NewDate(Val(filters.endDate))
                   ELSE DateOf(t)
        startDate == IF IsTruthy(filters.startDate) THEN NewDate(Val(filters.startDate))
                     ELSE MinusThirtyDays(DateOf(t))
    IN [NoWhere EXCEPT !.createdAt = [Unbounded EXCEPT !.gte = {startDate}, !.lte = {endDate}]]

\* exportSales: the date range of its query, at clock reading t
SalesWhere(filters, t) ==
    LET endDate == IF IsTruthy(filters.endDate) THEN NewDate(Val(filters.endDate))
                   ELSE DateOf(t)
        startDate == IF IsTruthy(filters.startDate) THEN NewDate(Val(filters.startDate))
                     ELSE MinusThirtyDays(endDate)
    IN [NoWhere EXCEPT !.createdAt = [Unbounded EXCEPT !.gte = {startDate}, !.lte = {endDate}]]

\* The where of the query of each export function
WhereOf(dataType, filters, t) ==
    CASE dataType = "orders" -> OrdersWhere(filters)
      [] dataType = "products" -> ProductsWhere(filters)
      [] dataType = "customers" -> CustomersWhere(filters)
      [] dataType = "sales" -> SalesWhere(filters, t)
      [] dataType = "inventory" -> InventoryWhere(filters)
      [] dataType = "vendors" -> VendorsWhere(filters)

\* The order of the values of an attribute: of dates or of numbers
Leq(a, b, order) == IF order = "date" THEN DateLeq(a, b) ELSE NumLeq(a, b)

\* The data source's reading of a constraint: v satisfies every bound of it
Admits(con, v, order) ==
    /\ \A b \in con.gte : Leq(b, v, order)
    /\ \A b \in con.gt : Leq(b, v, order) /\ b # v
    /\ \A b \in con.lte : Leq(v, b, order)

Matches(where, rec) ==
    /\ Admits(where.createdAt, rec.createdAt, "date")
    /\ Admits(where.price, rec.price, "number")
    /\ Admits(where.quantity, rec.quantity, "number")
    /\ \A r \in where.role : rec.role = r
    /\ \A a \in where.isActive : rec.isActive = a

\* ------------------------------------------------------------- the assembler
\* The filter values of the calls
FilterDates == {DateV([day |-> -ThirtyDays, ms |-> 0]), DateV([day |-> 0, ms |-> 0])}
FilterNumbers == {NumV(0), StrV(0), StrV(2)}
OptDate == {{}} \cup {{d} : d \in FilterDates}
OptNumber == {{}} \cup {{n} : n \in FilterNumbers}
OptFlag == {{}, {"true"}, {"false"}}
OptRole == {{}, {"ADMIN"}}

NoFilters ==
    [startDate |-> {}, endDate |-> {}, minPrice |-> {}, maxPrice |-> {},
     minQuantity |-> {}, maxQuantity |-> {}, inStock |-> {},
     role |-> {}, isActive |-> {}]

\* The filters each export function reads, of those above
FilterSets(dataType) ==
    CASE dataType \in {"orders", "vendors", "sales"} ->
            {[NoFilters EXCEPT !.startDate = s, !.endDate = e] :
                s \in OptDate, e \in OptDate}
      [] dataType = "customers" ->
            {[NoFilters EXCEPT !.startDate = s, !.endDate = e] :
                s \in OptDate, e \in OptDate}
            \cup {[NoFilters EXCEPT !.startDate = d, !.endDate = d,
                                    !.role = r, !.isActive = f] :
                     d \in OptDate, r \in OptRole, f \in OptFlag}
      [] dataType = "products" ->
            {[NoFilters EXCEPT !.minPrice = lo, !.maxPrice = hi, !.inStock = f] :
                lo \in OptNumber, hi \in OptNumber, f \in OptFlag}
      [] dataType = "inventory" ->
            {[NoFilters EXCEPT !.minQuantity = lo, !.maxQuantity = hi, !.inStock = f] :
                lo \in OptNumber, hi \in OptNumber, f \in OptFlag}

\* The records of the data source, in the order its queries return them
Rec1 ==
    [id |-> 1, createdAt |-> [day |-> -ThirtyDays, ms |-> 0], price |-> 0, quantity |-> 0,
     role |-> "CUSTOMER", isActive |-> TRUE]
Rec2 ==
    [id |-> 2, createdAt |-> [day |-> 0, ms |-> 1], price |-> 2, quantity |-> 2,
     role |-> "CUSTOMER", isActive |-> FALSE]
Rec3 ==
    [id |-> 3, createdAt |-> [day |-> 0, ms |-> 0], price |-> 2, quantity |-> 2,
     role |-> "ADMIN", isActive |-> TRUE]
AllRecords == <<Rec1, Rec2, Rec3>>
DataStates == {{Rec1, Rec2}, {Rec1}, {Rec1, Rec2, Rec3}}

\* findMany({ where, orderBy }) and the raw query of exportSales
FindMany(db, where) ==
    LET Test(r) == r \in db /\ Matches(where, r)
    IN SelectSeq(AllRecords, Test)

\* The keys of the row object each export function builds, in the order it
\* writes them
RowKeys(dataType) ==
    CASE dataType = "orders" ->
            <<"id", "orderNumber", "customerName", "customerEmail", "status",
              "paymentStatus", "totalAmount", "subtotalAmount", "taxAmount",
              "shippingAmount", "discountAmount", "shippingAddress",
              "paymentMethod", "createdAt", "itemCount", "items">>
      [] dataType = "products" ->
            <<"id", "name", "sku", "category", "vendor", "price",
              "compareAtPrice", "quantity", "inStock", "featured", "active",
              "averageRating", "reviewCount", "createdAt", "updatedAt">>
      [] dataType = "customers" ->
            <<"id", "email", "firstName", "lastName", "fullName", "phone",
              "country", "isActive", "orderCount", "totalSpent",
              "averageOrderValue", "loyaltyPoints", "createdAt", "lastLoginAt",
              "addressCount">>
      [] dataType = "sales" ->
            <<"date", "sales", "orders", "avgOrderValue", "itemsSold">>
      [] dataType = "inventory" ->
            <<"id", "sku", "name", "category", "vendor", "quantity", "price",
              "totalValue", "status", "lastUpdated">>
      [] dataType = "vendors" ->
            <<"id", "businessName", "contactEmail", "contactPhone", "status",
              "commissionRate", "totalProducts", "totalValue", "createdAt",
              "updatedAt">>

\* const fields = [...] of each export function
FieldList(dataType) ==
    CASE dataType = "orders" ->
            <<"id", "orderNumber", "customerName", "customerEmail", "status",
              "paymentStatus", "totalAmount", "subtotalAmount", "taxAmount",
              "shippingAmount", "discountAmount", "shippingAddress",
              "paymentMethod", "createdAt", "itemCount", "items">>
      [] dataType = "products" ->
            <<"id", "name", "sku", "category", "vendor", "price",
              "compareAtPrice", "quantity", "inStock", "featured", "active",
              "averageRating", "reviewCount", "createdAt", "updatedAt">>
      [] dataType = "customers" ->
            <<"id", "email", "fullName", "firstName", "lastName", "phone",
              "country", "isActive", "orderCount", "totalSpent",
              "averageOrderValue", "loyaltyPoints", "createdAt", "lastLoginAt",
              "addressCount">>
      [] dataType = "sales" ->
            <<"date", "sales", "orders", "avgOrderValue", "itemsSold">>
      [] dataType = "inventory" ->
            <<"id", "sku", "name", "category", "vendor", "quantity", "price",
              "totalValue", "status", "lastUpdated">>
      [] dataType = "vendors" ->
            <<"id", "businessName", "contactEmail", "contactPhone", "status",
              "commissionRate", "totalProducts", "totalValue", "createdAt",
              "updatedAt">>

\* Variant of FormatRow: the row object lacks its last key
FormatRowWithoutLastKey(dataType, rec) ==
    [i \in 1..(Len(RowKeys(dataType)) - 1) |-> <<RowKeys(dataType)[i], rec.id>>]

\* The row object built from one record: its keys in the order written, each
\* with its value (the record's, formatted)
FormatRow(dataType, rec) ==
    [i \in 1..Len(RowKeys(dataType)) |-> <<RowKeys(dataType)[i], rec.id>>]

\* An export function up to its switch, at clock reading t: the where, the
\* records found, the field list and the formatted rows
Assembled(dataType, filters, db, t) ==
    LET where == WhereOf(dataType, filters, t)
        found == FindMany(db, where)
    IN [where |-> where,
        found |-> found,
        fields |-> FieldList(dataType),
        rows |-> [i \in 1..Len(found) |-> FormatRow(dataType, found[i])]]

\* ------------------------------------------------- evaluations of pure parts
mainVars == <<pc, kind, format, rows, result, path, stream, buf, pos, ended,
              listeners, hist, dirExists, files, cause>>

\* A pure part is evaluated
Evaluated(e) == eval' = [prev |-> NoEval, last |-> e]

\* The same evaluation is made once more
EvaluatedAgain(e) == eval' = [prev |-> eval.last, last |-> e]

\* The evaluation of an export function up to its switch
AssembleEval(dataType, filters, db, t) ==
    [fn |-> "assemble",
     arg |-> [dataType |-> dataType, filters |-> filters, db |-> db, time |-> t],
     val |-> Assembled(dataType, filters, db, t)]

\* An export function assembles its rows at clock reading t
Assemble(dataType, filters, db, t) ==
    /\ now' = t
    /\ Evaluated(AssembleEval(dataType, filters, db, t))
    /\ UNCHANGED mainVars

\* The caller repeats its last call, with the same filters and the data
\* source in the same state, at clock reading t
AssembleAgain(t) ==
    /\ eval.last.fn = "assemble"
    /\ now' = t
    /\ EvaluatedAgain(AssembleEval(eval.last.arg.dataType, eval.last.arg.filters,
                                   eval.last.arg.db, t))
    /\ UNCHANGED mainVars

\* --------------------------------------------------- columns and projection
\* The names of the columns of one row in the output of each renderer: those
\* of fields in the delimited text, the workbook and the paginated document,
\* the keys of the row object in JSON.stringify(data)
ColumnsOf(fmt, fields, row) ==
    IF fmt = JSON THEN [i \in 1..Len(row) |-> row[i][1]] ELSE fields

\* A renderer lays out the columns of a row of dataType
RenderColumns(dataType, fmt) ==
    /\ Evaluated([fn |-> "columns",
                  arg |-> [dataType |-> dataType, format |-> fmt],
                  val |-> ColumnsOf(fmt, FieldList(dataType), FormatRow(dataType, Rec1))])
    /\ UNCHANGED <<mainVars, now>>

\* The values of the cells of a row object: mappings, texts, numbers, null,
\* undefined, and the functions mappings inherit
ObjV(props) == [type |-> "object", props |-> props]
TextV(chars) == [type |-> "text", chars |-> chars]
Null == [type |-> "null"]
Undefined == [type |-> "undefined"]
FunctionV == [type |-> "function"]

\* The values the && of the reducer takes for false
Falsy(v) ==
    \/ v.type \in {"null", "undefined", "NaN"}
    \/ v.type = "number" /\ v.num = 0
    \/ v.type = "text" /\ v.chars = <<>>

\* obj[key]: an own property, or one every value of that type has
GetProp(obj, key) ==
    CASE obj.type = "object" ->
            IF key \in DOMAIN obj.props THEN obj.props[key]
            ELSE IF key = "constructor" THEN FunctionV
            ELSE Undefined
      [] obj.type = "text" ->
            IF key = "length" THEN NumV(Len(obj.chars)) ELSE Undefined
      [] OTHER -> Undefined

\* (obj, key) => (obj && obj[key] !== undefined ? obj[key] : null)
ReduceStep(obj, key) ==
    IF ~Falsy(obj) /\ GetProp(obj, key) # Undefined THEN GetProp(obj, key) ELSE Null

\* field.split(".").reduce(..., item)
RECURSIVE Reduce(_, _)
Reduce(obj, keys) ==
    IF keys = <<>> THEN obj ELSE Reduce(ReduceStep(obj, Head(keys)), Tail(keys))

\* value !== null && value !== undefined ? value : ""
CellOf(value) == IF value # Null /\ value # Undefined THEN value ELSE TextV(<<>>)

\* The row objects and the dotted paths projected
Items ==
    {ObjV([k \in {"a"} |-> ObjV([j \in {"b"} |-> NumV(1)])]),
     ObjV([k \in {"a"} |-> ObjV([j \in {"b"} |-> NumV(0)])]),
     ObjV([k \in {"a"} |-> NumV(1)]),
     ObjV([k \in {"a"} |-> TextV(<<"a", "b", "c">>)]),
     ObjV([k \in {"a"} |-> Null]),
     ObjV([k \in {} |-> Null])}

Paths == {<<"a">>, <<"x">>, <<"a", "b">>, <<"a", "length">>, <<"a", "x">>}

\* A renderer projects the field of the dotted path field from item
Project(item, field) ==
    /\ Evaluated([fn |-> "project",
                  arg |-> [item |-> item, path |-> field],
                  val |-> [value |-> Reduce(item, field),
                           cell |-> CellOf(Reduce(item, field))]])
    /\ UNCHANGED <<mainVars, now>>

\* ------------------------------------------------------ numeric aggregates
\* Amounts, sums and means are numbers in hundredths.  Not-a-number:
NaN == [type |-> "NaN"]

\* Number(x) of a value of the data source: of null 0, of undefined NaN
ToNumber(v) ==
    CASE v.type = "number" -> v
      [] v.type = "null" -> NumV(0)
      [] OTHER -> NaN

\* x.toFixed(2): the text of x with two decimals, "NaN" of NaN
ToFixed2(v) ==
    IF v = NaN THEN TextV(<<"N", "a", "N">>) ELSE [type |-> "fixed2", num |-> v.num]

\* x || 0
OrZero(v) == IF Falsy(v) THEN NumV(0) ELSE v

\* a / b of two numbers: NaN of 0 / 0, else the quotient rounded to hundredths
\* (no sum here is divided by 0 unless it is 0)
Quotient(a, b) ==
    IF b.num = 0 THEN NaN ELSE NumV((2 * a.num + b.num) \div (2 * b.num))

\* exportSales: the numeric cells of the row of one bucket
FormatSales(item) ==
    [sales |-> ToFixed2(ToNumber(item.sales)),
     orders |-> ToNumber(item.orders),
     avgOrderValue |-> ToFixed2(ToNumber(item.avgordervalue)),
     itemsSold |-> OrZero(ToNumber(item.itemssold))]

\* The sum of Number(order.totalAmount) over orders, from 0
RECURSIVE SumAmounts(_)
SumAmounts(orders) ==
    IF orders = <<>> THEN 0
    ELSE ToNumber(Head(orders).totalAmount).num + SumAmounts(Tail(orders))

\* Variant of AverageOrderValue: the quotient is taken whatever the count
AverageOrderValueUnguarded(totalSpent, orderCount) == Quotient(totalSpent, orderCount)

\* orderCount > 0 ? totalSpent / orderCount : 0
AverageOrderValue(totalSpent, orderCount) ==
    IF orderCount.num > 0 THEN Quotient(totalSpent, orderCount) ELSE NumV(0)

\* exportCustomers: the aggregates of the row of one customer
FormatCustomer(orders) ==
    LET Completed(order) == order.status \in {"DELIVERED", "SHIPPED"}
        completedOrders == SelectSeq(orders, Completed)
        totalSpent == NumV(SumAmounts(completedOrders))
        orderCount == NumV(Len(completedOrders))
    IN [orderCount |-> orderCount,
        totalSpent |-> ToFixed2(totalSpent),
        averageOrderValue |-> ToFixed2(AverageOrderValue(totalSpent, orderCount))]

\* The sum of review.rating over reviews, from 0
RECURSIVE SumRatings(_)
SumRatings(reviews) ==
    IF reviews = <<>> THEN 0 ELSE Head(reviews).num + SumRatings(Tail(reviews))

\* exportProducts: the aggregates of the row of one product; ratings are in
\* hundredths like the mean
FormatProduct(reviews) ==
    [averageRating |->
        IF Len(reviews) > 0
        THEN ToFixed2(Quotient(NumV(SumRatings(reviews)), NumV(Len(reviews))))
        ELSE TextV(<<"0", ".", "0", "0">>),
     reviewCount |-> NumV(Len(reviews))]

\* The buckets the sales query returns, the orders of a customer and the
\* reviews of a product
Aggregates == {Null, NumV(0), NumV(250)}
Buckets ==
    {[sales |-> s, orders |-> NumV(n), avgordervalue |-> a, itemssold |-> i] :
        s \in Aggregates, a \in Aggregates, i \in Aggregates, n \in {1}}
Orders1 ==
    {[status |-> st, totalAmount |-> NumV(a)] :
        st \in {"DELIVERED", "SHIPPED", "PENDING"}, a \in {0, 125}}
OrderLists == {<<>>} \cup {<<o>> : o \in Orders1} \cup {<<o, p>> : o \in Orders1, p \in Orders1}
ReviewLists == {<<>>} \cup {<<NumV(r)>> : r \in {100, 400}}
                     \cup {<<NumV(r), NumV(q)>> : r \in {100, 400}, q \in {100, 400}}

\* An export function formats the aggregates of one row
FormatAggregates(dataType, input) ==
    /\ Evaluated([fn |-> "aggregates",
                  arg |-> [dataType |-> dataType, input |-> input],
                  val |-> CASE dataType = "sales" -> FormatSales(input)
                            [] dataType = "customers" -> FormatCustomer(input)
                            [] dataType = "products" -> FormatProduct(input)])
    /\ UNCHANGED <<mainVars, now>>

\* ------------------------------------------------------------ sales buckets
\* The interval filter: left out, or a string
OptInterval == {{}} \cup {{s} : s \in {"hourly", "daily", "weekly", "monthly", "yearly", ""}}

\* filters.interval || "daily"
IntervalOf(x) == IF x = {} \/ Val(x) = "" THEN "daily" ELSE Val(x)

\* Variant of DateFormatOf: the truncations of week and month are exchanged
DateFormatOfSwapped(interval) ==
    CASE interval = "hourly" -> "DATE_TRUNC('hour', createdAt)"
      [] interval = "weekly" -> "DATE_TRUNC('month', createdAt)"
      [] interval = "monthly" -> "DATE_TRUNC('week', createdAt)"
      [] OTHER -> "DATE(createdAt)"

\* let dateFormat = DATE("createdAt"); if (interval === "hourly") ... else if
\* "weekly" ... else if "monthly" ...
DateFormatOf(interval) ==
    CASE interval = "hourly" -> "DATE_TRUNC('hour', createdAt)"
      [] interval = "weekly" -> "DATE_TRUNC('week', createdAt)"
      [] interval = "monthly" -> "DATE_TRUNC('month', createdAt)"
      [] OTHER -> "DATE(createdAt)"

\* The raw query of exportSales: what it groups by and how it orders
SalesQuery(x) ==
    [groupBy |-> DateFormatOf(IntervalOf(x)), orderBy |-> <<"date", "ASC">>]

\* exportSales builds its query for the interval filter x
BuildSalesQuery(x) ==
    /\ Evaluated([fn |-> "salesQuery", arg |-> [interval |-> x], val |-> SalesQuery(x)])
    /\ UNCHANGED <<mainVars, now>>

\* ---------------------------------------------------------- stock status
\* The greatest quantities of low and of medium stock
LowStockMax == 5
MediumStockMax == 20

\* Variant of StockStatus: the comparisons are strict
StockStatusStrict(quantity) ==
    IF quantity < 0 THEN "Out of Stock"
    ELSE IF quantity < LowStockMax THEN "Low Stock"
    ELSE IF quantity < MediumStockMax THEN "Medium Stock"
    ELSE "Good Stock"

\* const status = product.quantity <= 0 ? "Out of Stock" : ...
StockStatus(quantity) ==
    IF quantity <= 0 THEN "Out of Stock"
    ELSE IF quantity <= LowStockMax THEN "Low Stock"
    ELSE IF quantity <= MediumStockMax THEN "Medium Stock"
    ELSE "Good Stock"

\* The products formatted: their quantities and prices
StockQuantities == -2..23
StockPrices == {0, 2}

\* exportInventory formats one product: its quantity, price and status
FormatInventory(quantity, price) ==
    /\ Evaluated([fn |-> "inventory",
                  arg |-> [quantity |-> quantity, price |-> price],
                  val |-> [quantity |-> quantity, price |-> price,
                           status |-> StockStatus(quantity)]])
    /\ UNCHANGED <<mainVars, now>>

InitFn == Init

NextFn ==
    \/ \E dataType \in ExportDataType, db \in DataStates, t \in now..MaxTime :
          \E filters \in FilterSets(dataType) : Assemble(dataType, filters, db, t)
    \/ \E t \in now..MaxTime : AssembleAgain(t)
    \/ \E dataType \in ExportDataType, fmt \in ExportFormat : RenderColumns(dataType, fmt)
    \/ \E item \in Items, field \in Paths : Project(item, field)
    \/ \E input \in Buckets : FormatAggregates("sales", input)
    \/ \E input \in OrderLists : FormatAggregates("customers", input)
    \/ \E input \in ReviewLists : FormatAggregates("products", input)
    \/ \E x \in OptInterval : BuildSalesQuery(x)
    \/ \E quantity \in StockQuantities, price \in StockPrices : FormatInventory(quantity, price)

SpecFn == InitFn /\ [][NextFn]_vars

\* ============================================================ rendered text
\* Texts are sequences of characters
DQ == "\""
COMMA == ","
NL == "\n"

RECURSIVE Flatten(_)
Flatten(ss) == IF ss = <<>> THEN <<>> ELSE Head(ss) \o Flatten(Tail(ss))

\* Join(ss, sep): the texts of ss with sep between them
RECURSIVE Join(_, _)
Join(ss, sep) ==
    IF ss = <<>> THEN <<>>
    ELSE IF Len(ss) = 1 THEN ss[1]
    ELSE ss[1] \o <<sep>> \o Join(Tail(ss), sep)

\* field.charAt(0).toUpperCase() + field.slice(1), of the workbook's and the
\* document's header
Capitalise(name) ==
    LET Upper(ch) == CASE ch = "i" -> "I" [] ch = "n" -> "N" [] OTHER -> ch
    IN IF name = <<>> THEN name ELSE <<Upper(name[1])>> \o Tail(name)

\* Variant of CsvHeader: the header is capitalised as the workbook's is
CsvHeaderCapitalised(fields) == [i \in 1..Len(fields) |-> Capitalise(fields[i])]

\* new Parser({ fields }): the header cells are the field names as given
CsvHeader(fields) == fields

\* The parser's text of a string cell: in double quotes, each double quote in
\* it doubled
CsvCell(text) ==
    <<DQ>> \o Flatten([i \in 1..Len(text) |-> IF text[i] = DQ THEN <<DQ, DQ>> ELSE <<text[i]>>])
           \o <<DQ>>

\* parser.parse(data): the header line and one line per row, its cells in the
\* order of fields, joined by commas, the lines by newlines.  A row is the
\* sequence of its values in field order.
CsvText(data, fields) ==
    LET Line(cells) == Join([i \in 1..Len(cells) |-> CsvCell(cells[i])], COMMA)
    IN Join(<<Line(CsvHeader(fields))>> \o [r \in 1..Len(data) |-> Line(data[r])], NL)

\* The reading of delimited text: records of fields, a field in double quotes
\* holding commas, newlines and doubled quotes
RECURSIVE ParseCsv(_, _, _, _, _, _)
ParseCsv(t, i, quoted, field, rec, out) ==
    IF i > Len(t) THEN Append(out, Append(rec, field))
    ELSE IF quoted
    THEN IF t[i] = DQ
         THEN IF i < Len(t) /\ t[i + 1] = DQ
              THEN ParseCsv(t, i + 2, TRUE, Append(field, DQ), rec, out)
              ELSE ParseCsv(t, i + 1, FALSE, field, rec, out)
         ELSE ParseCsv(t, i + 1, TRUE, Append(field, t[i]), rec, out)
    ELSE IF t[i] = DQ THEN ParseCsv(t, i + 1, TRUE, field, rec, out)
    ELSE IF t[i] = COMMA THEN ParseCsv(t, i + 1, FALSE, <<>>, Append(rec, field), out)
    ELSE IF t[i] = NL THEN ParseCsv(t, i + 1, FALSE, <<>>, <<>>, Append(out, Append(rec, field)))
    ELSE ParseCsv(t, i + 1, FALSE, Append(field, t[i]), rec, out)

\* The field names and string values rendered
CsvFields == << <<"i", "d">>, <<"n", "a", "m", "e">> >>
Chars == {"a", COMMA, DQ, NL}
Texts == {<<>>} \cup {<<x>> : x \in Chars} \cup {<<x, y>> : x \in Chars, y \in Chars}
CsvRows == {<<t, u>> : t \in Texts, u \in {<<>>, <<"a", DQ>>}}
CsvData == {<<>>} \cup {<<r>> : r \in CsvRows} \cup {<<r, <<<<"a">>, <<NL>>>>>> : r \in CsvRows}

\* exportToCsv renders data with fields
RenderCsv(data, fields) ==
    /\ Evaluated([fn |-> "csv",
                  arg |-> [data |-> data, fields |-> fields],
                  val |-> CsvText(data, fields)])
    /\ UNCHANGED <<mainVars, now>>

\* ------------------------------------------------------------ column widths
\* A text of n characters
Xs(n) == [i \in 1..n |-> "x"]

\* The number of decimal digits of a natural number
RECURSIVE Digits(_)
Digits(n) == IF n < 10 THEN 1 ELSE 1 + Digits(n \div 10)

\* cell.value.toString().length
ToStringLength(v) == IF v.type = "number" THEN Digits(v.num) ELSE Len(v.chars)

\* The length counted for a cell without a value, the least width of a column
\* and what is added to the longest length
DefaultLength == 10
MinWidth == 10
Padding == 2

\* cell.value ? cell.value.toString().length : 10
ColumnLength(cell) == IF ~Falsy(cell) THEN ToStringLength(cell) ELSE DefaultLength

\* let maxLength = 0; column.eachCell(... if (columnLength > maxLength) ...)
RECURSIVE MaxLength(_)
MaxLength(cells) ==
    IF cells = <<>> THEN 0
    ELSE LET rest == MaxLength(Tail(cells))
         IN IF ColumnLength(Head(cells)) > rest THEN ColumnLength(Head(cells)) ELSE rest

\* column.width = maxLength < 10 ? 10 : maxLength + 2
ColumnWidth(cells) ==
    IF MaxLength(cells) < MinWidth THEN MinWidth ELSE MaxLength(cells) + Padding

\* The cells of a column: the header's and the rows'
HeaderCells == {TextV(Xs(n)) : n \in {2, 10, 11}}
DataCells ==
    {TextV(<<>>), NumV(0), NumV(7), TextV(Xs(3)), TextV(Xs(9)), TextV(Xs(10)), TextV(Xs(12))}
Columns ==
    {<<h>> : h \in HeaderCells}
        \cup {<<h, a>> : h \in HeaderCells, a \in DataCells}
        \cup {<<h, a, b>> : h \in HeaderCells, a \in DataCells, b \in DataCells}

\* exportToExcel fits the width of one column to its cells
AutoFit(column) ==
    /\ Evaluated([fn |-> "autofit", arg |-> column, val |-> ColumnWidth(column)])
    /\ UNCHANGED <<mainVars, now>>

\* ------------------------------------------------------------ page layout
\* The most rows drawn in one document
MaxDrawn == 50

\* new PDFDocument({ margin: 50 }): a page of the default size, and its margin
PageHeight == 792
PageMargin == 50

\* const tableTop = 150, the header's height 30, a row's height 25, the top
\* given to currentTop after doc.addPage() and the distance from the bottom
\* that starts a new page
TableTop == 150
HeaderHeight == 30
RowHeight == 25
NewPageTop == 50
NearBottom == 100

\* Variant of PageFull: a new page only when the margin itself is crossed
PageFullAtMargin(currentTop) == currentTop > PageHeight - PageMargin

\* if (currentTop > doc.page.height - 100)
PageFull(currentTop) == currentTop > PageHeight - NearBottom

\* data.forEach((item, rowIndex) => ...): the rectangles drawn for rows
\* from..n, the first at currentTop on page; one rectangle stands for the
\* cells of a row, which share top and height
RECURSIVE DrawRows(_, _, _, _)
DrawRows(from, n, currentTop, page) ==
    IF from > n THEN <<>>
    ELSE <<[row |-> from, page |-> page, top |-> currentTop, height |-> RowHeight]>>
         \o (IF PageFull(currentTop + RowHeight)
             THEN DrawRows(from + 1, n, NewPageTop, page + 1)
             ELSE DrawRows(from + 1, n, currentTop + RowHeight, page))

\* exportToPdf draws the rows of data below the header
DrawTable(n) ==
    /\ Evaluated([fn |-> "draw", arg |-> n,
                  val |-> DrawRows(1, n, TableTop + HeaderHeight, 1)])
    /\ UNCHANGED <<mainVars, now>>

NextRender ==
    \/ \E data \in CsvData : RenderCsv(data, CsvFields)
    \/ \E column \in Columns : AutoFit(column)
    \/ \E n \in 0..MaxDrawn : DrawTable(n)

SpecRender == Init /\ [][NextRender]_vars

\* ================================================================== claims
Has(c, e) == \E i \in 1..Len(hist[c]) : hist[c][i] = e

Unsupported(c) ==
    result[c] = Rejected(ApiError(<<"Unsupported export format", format[c]>>, 400))

RenderFailed(c) ==
    /\ result[c].tag = "rejected"
    /\ Has(c, "render")

\* The steps of call c: of its code and of its write stream
StepOf(c) == <<pc[c], hist[c], stream[c], pos[c]>>' # <<pc[c], hist[c], stream[c], pos[c]>>

\* C1: an export call whose format is unsupported fails with the
\* unsupported-format error having issued no data-source query.
C1_UnsupportedBeforeAnyQuery ==
    \A c \in Calls : Unsupported(c) => Count(hist[c], "query") = 0

\* C2: a call with an unsupported format has no filesystem effect: it never
\* enters a renderer, generates no path and opens no stream, and no step of it
\* changes the export directory or a file in it.
C2_UnsupportedNoFilesystemEffect ==
    /\ [](\A c \in Calls :
            (pc[c] # "idle" /\ format[c] \notin ExportFormat) =>
                /\ \A i \in 1..Len(hist[c]) : hist[c][i] \notin RenderEvents
                /\ path[c] = NoPath
                /\ stream[c] = "none")
    /\ [][\A c \in Calls :
            (format'[c] \notin ExportFormat /\ StepOf(c)) =>
                (dirExists' = dirExists /\ files' = files)]_vars

\* C2 witness: a call with an unsupported format has been rejected while the
\* other call has put a file into the directory.
C2_Witness ==
    \E c \in Calls : Unsupported(c) /\ pc[c] = "done" /\ DOMAIN files # {}

\* C3: within one call every event of rendering (entering a renderer, creating
\* the directory, generating the filename, opening the stream, writing) comes
\* after the query has returned its rows, and no query follows it.
C3_FetchCompleteBeforeRender ==
    \A c \in Calls :
        LET h == hist[c]
            fetched == First(h, "rows")
            queried == First(h, "query")
        IN \A i \in 1..Len(h) :
              h[i] \in RenderEvents =>
                  /\ fetched \in 1..(i - 1)
                  /\ queried \in 1..(fetched - 1)
                  /\ \A j \in (i + 1)..Len(h) : h[j] # "query"

\* C3 witness: a call has fetched at least one row and written it through a
\* stream.
C3_Witness ==
    \E c \in Calls : Len(rows[c]) >= 1 /\ Has(c, "open") /\ pos[c] >= 2

\* C4: a call whose query failed is rejected, has entered no renderer,
\* generated no path, opened no stream and written nothing.
C4_FetchFailureNoOutput ==
    \A c \in Calls : Has(c, "query_error") =>
        /\ pc[c] = "done"
        /\ result[c].tag = "rejected"
        /\ \A i \in 1..Len(hist[c]) : hist[c][i] \notin RenderEvents
        /\ path[c] = NoPath
        /\ stream[c] = "none"
        /\ \A p \in DOMAIN files : \E d \in Calls \ {c} : path[d] = p

\* C4 witness: a query has failed.
C4_Witness ==
    \E c \in Calls : Has(c, "query_error") /\ format[c] = PDF

\* C5: when a renderer has failed, no file with partial content is left at its
\* target path.
C5_NoPartialFileAfterRenderFailure ==
    \A c \in Calls :
        (RenderFailed(c) /\ path[c] # NoPath /\ path[c] \in DOMAIN files) =>
            files[path[c]] = Encode(format[c], rows[c])

\* C6: a call of exportToPdf that has returned its path did so after the
\* 'finish' event of its stream: the stream is finished, it has written all it
\* was given, and 'finish' precedes the return.
C6_PdfResolvesAfterFinish ==
    \A c \in Calls : (format[c] = PDF /\ result[c].tag = "resolved") =>
        /\ stream[c] = "finished"
        /\ pos[c] = Len(buf[c])
        /\ First(hist[c], "finish") \in 1..(First(hist[c], "resolve") - 1)

\* C6 witness: an exportToPdf call has returned its path.
C6_Witness ==
    \E c \in Calls : format[c] = PDF /\ result[c].tag = "resolved" /\ Len(rows[c]) >= 1

\* C7: when the stream of an exportToPdf call has emitted an error, the call is
\* rejected with an ApiError of status 500 and has not returned a path.
C7_PdfStreamErrorRejects ==
    \A c \in Calls : (format[c] = PDF /\ stream[c] = "errored") =>
        /\ result[c].tag = "rejected"
        /\ result[c].error.name = "ApiError"
        /\ result[c].error.statusCode = 500
        /\ ~Has(c, "resolve")

\* C7 witness: the stream of a waiting exportToPdf call failed while it was
\* being opened, the earliest moment an error can be emitted.
C7_Witness ==
    \E c \in Calls :
        /\ format[c] = PDF
        /\ stream[c] = "errored"
        /\ pos[c] = 0
        /\ ended[c]
        /\ path[c] \notin DOMAIN files

\* C8: two calls for the same kind and format never write to the same path.
C8_NoSharedPath ==
    \A c, d \in Calls :
        (c # d /\ kind[c] = kind[d] /\ format[c] = format[d]
              /\ Has(c, "write") /\ Has(d, "write")) => path[c] # path[d]

\* C9: when a call returns a path, the file at that path exists and holds
\* exactly the rows the call's assembler produced, in their order (so it is
\* not empty when there is a row).
C9_ReturnedFileHoldsRows ==
    [][\A c \in Calls :
        (result[c].tag = "pending" /\ result'[c].tag = "resolved") =>
            /\ result'[c].value \in DOMAIN files'
            /\ ParseRows(files'[result'[c].value]) = rows'[c]
            /\ (Len(rows'[c]) >= 1 => files'[result'[c].value] # <<>>)]_vars

\* C10: a call issues at most one query and makes at most one write attempt,
\* and after a failed query or a failed write it makes no further query or
\* write.
C10_NoRetries ==
    \A c \in Calls :
        /\ Count(hist[c], "query") <= 1
        /\ Count(hist[c], "write") <= 1
        /\ \A i \in 1..Len(hist[c]) :
             hist[c][i] \in {"query_error", "write_error", "draw_error", "error"} =>
                \A j \in (i + 1)..Len(hist[c]) : hist[c][j] \notin {"query", "write"}

\* C10 witness: one call's query has failed and another call's write has
\* failed.
C10_Witness ==
    \E c, d \in Calls :
        /\ Has(c, "query_error") /\ pc[c] = "done"
        /\ (Has(d, "write_error") \/ Has(d, "error")) /\ pc[d] = "done"

\* The message prefix of the ApiError each renderer's catch throws
RenderLabel(fmt) ==
    CASE fmt = CSV -> "Failed to export data to CSV"
      [] fmt = EXCEL -> "Failed to export data to Excel"
      [] fmt = PDF -> "Failed to export data to PDF"
      [] fmt = JSON -> "Failed to export data to JSON"

\* C11: the error of a failed query reaches the caller as that same value,
\* the ApiError a renderer threw reaches the caller as the renderer threw it,
\* and a call whose query or renderer failed never resolves.
C11_ErrorsPropagateUnchanged ==
    \A c \in Calls :
        /\ Has(c, "query_error") => result[c] = Rejected(cause[c])
        /\ (Has(c, "render") /\ cause[c] # NoError) =>
              result[c] = Rejected(Wrap(RenderLabel(format[c]), cause[c]))
        /\ (Has(c, "query_error") \/ cause[c] # NoError) =>
              (result[c].tag = "rejected" /\ ~Has(c, "resolve"))

\* C11 witness: one call's query failed and the other call's renderer failed,
\* and both have been rejected.
C11_Witness ==
    \E c, d \in Calls :
        /\ Has(c, "query_error") /\ result[c] = Rejected(LowError("query failed"))
        /\ Has(d, "render") /\ cause[d] # NoError /\ result[d].tag = "rejected"

\* A renderer's catch wrapped the error that failed call c
Wrapped(c) == Has(c, "render") /\ cause[c] # NoError /\ result[c].tag = "rejected"

\* C12: the error a renderer wrapped is recoverable from the error the caller
\* receives: two calls that receive equal errors had equal original errors
\* (the received error determines the original one).
C12_WrappedCauseRecoverable ==
    \A c, d \in Calls :
        (Wrapped(c) /\ Wrapped(d) /\ result[c] = result[d]) => cause[c] = cause[d]

\* The extension the file of each format is to have
ExtensionOf(fmt) ==
    CASE fmt = CSV -> "csv"
      [] fmt = EXCEL -> "xlsx"
      [] fmt = PDF -> "pdf"
      [] fmt = JSON -> "json"

\* C13: every generated file name holds the call's report kind, a timestamp
\* without ':' or '.', and the extension of the call's format: csv, xlsx, pdf
\* or json.
C13_FilenameForm ==
    \A c \in Calls : path[c] # NoPath =>
        /\ path[c].dataType = kind[c]
        /\ \A i \in 1..Len(path[c].timestamp) : path[c].timestamp[i] \notin {":", "."}
        /\ path[c].ext = ExtensionOf(format[c])

\* C18: two calls that differ in report kind or in format have different file
\* paths, whatever the clock read when each name was generated.
C18_DistinctPathAcrossKindsAndFormats ==
    \A c, d \in Calls :
        (/\ c # d
         /\ path[c] # NoPath /\ path[d] # NoPath
         /\ (kind[c] # kind[d] \/ format[c] # format[d])) => path[c] # path[d]

\* C18 witness: two calls, one differing from the other in kind and in format,
\* have generated their names at the same clock reading and written.
C18_Witness ==
    \E c, d \in Calls :
        /\ kind[c] # kind[d] /\ format[c] # format[d]
        /\ path[c] # NoPath /\ path[d] # NoPath
        /\ path[c].timestamp = path[d].timestamp
        /\ Has(c, "write") /\ Has(d, "write")

\* The last two evaluations are two calls of one export function with the same
\* filters on the same state of the data source
SameCallTwice ==
    /\ eval.prev.fn = "assemble" /\ eval.last.fn = "assemble"
    /\ eval.prev.arg.dataType = eval.last.arg.dataType
    /\ eval.prev.arg.filters = eval.last.arg.filters
    /\ eval.prev.arg.db = eval.last.arg.db

SameContent ==
    /\ eval.prev.val.rows = eval.last.val.rows
    /\ eval.prev.val.fields = eval.last.val.fields

DateBoundsHold(filters, rec) ==
    /\ \A v \in filters.startDate : DateLeq(NewDate(v), rec.createdAt)
    /\ \A v \in filters.endDate : DateLeq(rec.createdAt, NewDate(v))

\* rec satisfies each bound of the price range that filters supplies
PriceBoundsHold(filters, rec) ==
    /\ \A v \in filters.minPrice : Number(v) <= rec.price
    /\ \A v \in filters.maxPrice : rec.price <= Number(v)

Found(rec) == \E i \in 1..Len(eval.last.val.found) : eval.last.val.found[i] = rec

\* C19: the records an export of orders, customers or vendors finds are those
\* of the data source that satisfy each supplied bound of the creation-date
\* range, and likewise those of products for the price range (among the
\* records the inStock filter admits): a bound supplied alone restricts the
\* result and an omitted bound does not.
C19_RangeBoundsIndependent ==
    eval.last.fn = "assemble" =>
        LET a == eval.last.arg IN
        /\ a.dataType \in {"orders", "customers", "vendors"} =>
              \A rec \in a.db : Found(rec) <=> DateBoundsHold(a.filters, rec)
        /\ a.dataType = "products" =>
              \A rec \in a.db :
                 /\ Found(rec) => PriceBoundsHold(a.filters, rec)
                 /\ (~Supplied(a.filters.inStock) /\ PriceBoundsHold(a.filters, rec))
                       => Found(rec)

\* The quantities of products
Quantities == {0, 1, 2, 3}

\* C20: the quantity constraint exportInventory sends to the data source admits
\* exactly the quantities that satisfy every supplied filter of minQuantity,
\* maxQuantity and inStock.
C20_InventoryFiltersConjoined ==
    (eval.last.fn = "assemble" /\ eval.last.arg.dataType = "inventory") =>
        LET f == eval.last.arg.filters IN
        \A q \in Quantities :
            Admits(eval.last.val.where.quantity, q, "number") <=>
                /\ \A v \in f.minQuantity : Number(v) <= q
                /\ \A v \in f.maxQuantity : q <= Number(v)
                /\ \A v \in f.inStock : IF v = "true" THEN q > 0 ELSE q <= 0

\* The value at path in item: each segment a key of the mapping reached so far;
\* Null, the missing sentinel, when a segment is absent or the value reached is
\* not a mapping
RECURSIVE ValueAt(_, _)
ValueAt(v, keys) ==
    IF keys = <<>> THEN v
    ELSE IF v.type = "object" /\ Head(keys) \in DOMAIN v.props
    THEN ValueAt(v.props[Head(keys)], Tail(keys))
    ELSE Null

\* C15: the projection of a dotted path from a row object is the value at the
\* path, or the missing sentinel when a segment is absent or an intermediate
\* value is not a mapping, and a missing value is rendered as the empty text.
C15_ProjectionIsValueAtPath ==
    eval.last.fn = "project" =>
        /\ eval.last.val.value = ValueAt(eval.last.arg.item, eval.last.arg.path)
        /\ eval.last.val.value = Null => eval.last.val.cell = TextV(<<>>)

\* C16: every row an export function assembles has a key for every field of the
\* field list of its kind, and that field list is the one of the kind, whatever
\* the rows.
C16_RowsHaveEveryField ==
    eval.last.fn = "assemble" =>
        LET v == eval.last.val IN
        /\ v.fields = FieldList(eval.last.arg.dataType)
        /\ \A i \in 1..Len(v.rows) : \A j \in 1..Len(v.fields) :
              \E k \in 1..Len(v.rows[i]) : v.rows[i][k][1] = v.fields[j]

\* C16 witness: an export of customers has assembled two rows.
C16_Witness ==
    /\ eval.last.fn = "assemble"
    /\ eval.last.arg.dataType = "customers"
    /\ Len(eval.last.val.rows) = 2

\* C17: in the output of every renderer, the structured dump included, the
\* columns of a row are in the order of the field list of the report kind.
C17_ColumnsInFieldListOrder ==
    eval.last.fn = "columns" => eval.last.val = FieldList(eval.last.arg.dataType)

\* A cell that shows a number: a number or the text of one, not null,
\* undefined, NaN, "NaN" or an empty text
ShowsNumber(v) == v.type \in {"number", "fixed2"} \/ v = TextV(<<"0", ".", "0", "0">>)

\* A cell that shows zero
ShowsZero(v) == v \in {NumV(0), [type |-> "fixed2", num |-> 0], TextV(<<"0", ".", "0", "0">>)}

\* C21: every formatted aggregate shows a number; a sales bucket's absent sum,
\* mean or item quantity shows 0 or 0.00, a customer without completed orders
\* has totalSpent and averageOrderValue 0.00, and a product without reviews has
\* averageRating 0.00.
C21_AggregatesNeverMissing ==
    eval.last.fn = "aggregates" =>
        LET a == eval.last.arg
            v == eval.last.val
        IN
        /\ \A k \in DOMAIN v : ShowsNumber(v[k])
        /\ a.dataType = "sales" =>
              /\ a.input.sales = Null => v.sales = [type |-> "fixed2", num |-> 0]
              /\ a.input.avgordervalue = Null => v.avgOrderValue = [type |-> "fixed2", num |-> 0]
              /\ a.input.itemssold = Null => v.itemsSold = NumV(0)
        /\ (a.dataType = "customers" /\ v.orderCount = NumV(0)) =>
              (ShowsZero(v.totalSpent) /\ ShowsZero(v.averageOrderValue))
        /\ (a.dataType = "products" /\ a.input = <<>>) => ShowsZero(v.averageRating)

\* C21 witness: a customer whose only orders are not completed has been
\* formatted.
C21_Witness ==
    /\ eval.last.fn = "aggregates"
    /\ eval.last.arg.dataType = "customers"
    /\ Len(eval.last.arg.input) = 2
    /\ eval.last.val.orderCount = NumV(0)

\* The truncation of each granularity
TruncationOf(granularity) ==
    CASE granularity = "hourly" -> "DATE_TRUNC('hour', createdAt)"
      [] granularity = "daily" -> "DATE(createdAt)"
      [] granularity = "weekly" -> "DATE_TRUNC('week', createdAt)"
      [] granularity = "monthly" -> "DATE_TRUNC('month', createdAt)"

\* C22: the sales query groups by the truncation of exactly one of the four
\* granularities: the one the interval filter names, daily when the filter is
\* left out, and it orders the buckets ascending by date.
C22_SalesGranularity ==
    eval.last.fn = "salesQuery" =>
        LET x == eval.last.arg.interval
            q == eval.last.val
            Four == {"hourly", "daily", "weekly", "monthly"}
        IN
        /\ Cardinality({g \in Four : q.groupBy = TruncationOf(g)}) = 1
        /\ \A g \in Four : x = {g} => q.groupBy = TruncationOf(g)
        /\ x = {} => q.groupBy = TruncationOf("daily")
        /\ q.orderBy = <<"date", "ASC">>

\* C22 witness: the query has been built for the interval weekly.
C22_Witness ==
    /\ eval.last.fn = "salesQuery"
    /\ eval.last.arg.interval = {"weekly"}
    /\ eval.last.val.groupBy = "DATE_TRUNC('week', createdAt)"

\* The directories made so far: one for each mkdirSync that ran
Mkdirs == Count(hist[1], "mkdir") + Count(hist[2], "mkdir")

\* C23: the export directory is made by the first renderer that needs it and
\* by none after it, it stays, it exists whenever a file has been written or a
\* stream opened for writing, and no file in it is removed, nor altered other
\* than by a call writing to its own path.
C23_DirectoryCreatedOnceAndKept ==
    /\ [](/\ Mkdirs <= 1
          /\ dirExists <=> Mkdirs = 1
          /\ DOMAIN files # {} => dirExists
          /\ \A c \in Calls : (Has(c, "write") \/ Has(c, "open")) => dirExists)
    /\ [][/\ dirExists => dirExists'
          /\ \A p \in DOMAIN files :
                /\ p \in DOMAIN files'
                /\ files'[p] # files[p] => \E c \in Calls : StepOf(c) /\ path'[c] = p]_vars

\* C23 witness: two calls have written their files into the directory, which
\* the first of them made.
C23_Witness ==
    \E c, d \in Calls :
        /\ c # d
        /\ Has(c, "mkdir") /\ ~Has(d, "mkdir")
        /\ Has(c, "write") /\ Has(d, "write")
        /\ path[c] \in DOMAIN files /\ path[d] \in DOMAIN files
        /\ path[c] # path[d]

IsPrefix(s, t) == Len(s) <= Len(t) /\ s = SubSeq(t, 1, Len(s))

C25_CsvRoundTrip ==
    eval.last.fn = "csv" =>
        ParseCsv(eval.last.val, 1, FALSE, <<>>, <<>>, <<>>)
            = <<eval.last.arg.fields>> \o eval.last.arg.data

\* C25 witness: a row whose value holds a double quote and a newline, followed
\* by another row, has been rendered.
C25_Witness ==
    /\ eval.last.fn = "csv"
    /\ Len(eval.last.arg.data) = 2
    /\ eval.last.arg.data[1][1] = <<DQ, NL>>

\* The length of the longest rendered value of a column's cells
RECURSIVE Longest(_)
Longest(cells) ==
    IF cells = <<>> THEN 0
    ELSE LET rest == Longest(Tail(cells))
         IN IF ToStringLength(Head(cells)) > rest THEN ToStringLength(Head(cells)) ELSE rest

\* C26: a column of the workbook is at least 10 wide, is as wide as its longest
\* rendered value (the header's included) plus the padding when that length
\* reaches 10, and is never wider than the larger of 10 and that length plus
\* the padding, whatever empty or zero cells it holds.
C26_ColumnWidthFollowsLongestValue ==
    eval.last.fn = "autofit" =>
        LET longest == Longest(eval.last.arg)
            width == eval.last.val
        IN /\ width >= MinWidth
           /\ longest >= MinWidth => width = longest + Padding
           /\ width <= (IF longest + Padding > MinWidth THEN longest + Padding ELSE MinWidth)

\* C27: every row rectangle of the document is 25 high and ends above the
\* page height minus the 50-unit margin; the rectangles are those of the rows
\* in their order, each on the page of the one before it and right below it,
\* or on the next page at the top margin.
C27_RowsAboveBottomMargin ==
    eval.last.fn = "draw" =>
        LET rects == eval.last.val IN
        /\ Len(rects) = eval.last.arg
        /\ \A i \in 1..Len(rects) :
              /\ rects[i].row = i
              /\ rects[i].height = RowHeight
              /\ rects[i].top >= PageMargin
              /\ rects[i].top + rects[i].height <= PageHeight - PageMargin
              /\ i > 1 =>
                    \/ /\ rects[i].page = rects[i - 1].page
                       /\ rects[i].top = rects[i - 1].top + rects[i - 1].height
                    \/ /\ rects[i].page = rects[i - 1].page + 1
                       /\ rects[i].top = PageMargin

\* C27 witness: a document whose rows fill the first two pages and go on on a
\* third has been drawn.
C27_Witness ==
    /\ eval.last.fn = "draw"
    /\ \E i \in 1..Len(eval.last.val) : eval.last.val[i].page = 3

\* C28: under SpecLive, where a stream that can open, write or finish does so
\* unless it fails, every call of exportToPdf that has ended its document and
\* waits for its stream eventually settles, with the path or with an error.
C28_PdfCallEventuallySettles ==
    \A c \in Calls :
        (format[c] = PDF /\ pc[c] = "waiting") ~> (pc[c] = "done" /\ result[c] # Pending)

\* C28 witness: one paginated-document call has returned its path after the
\* stream's finish while the other has failed on the stream's error.
C28_Witness ==
    \E c, d \in Calls :
        /\ format[c] = PDF /\ format[d] = PDF
        /\ Has(c, "finish") /\ pc[c] = "done" /\ result[c] = Resolved(path[c])
        /\ Has(d, "error") /\ pc[d] = "done" /\ result[d] # Pending /\ result[d] # Resolved(path[d])

\* C29: whatever filters exportCustomers is called with (with or without
\* role, isActive and dates) its query asks for the role CUSTOMER, every
\* record it finds has that role and each row of the export is the row of
\* such a record.
C29_OnlyCustomersExported ==
    (eval.last.fn = "assemble" /\ eval.last.arg.dataType = "customers") =>
        /\ eval.last.val.where.role = {"CUSTOMER"}
        /\ \A i \in 1..Len(eval.last.val.found) : eval.last.val.found[i].role = "CUSTOMER"
        /\ Len(eval.last.val.rows) = Len(eval.last.val.found)
        /\ \A i \in 1..Len(eval.last.val.rows) :
              eval.last.val.rows[i] = FormatRow("customers", eval.last.val.found[i])

\* C29 witness: customers were exported with a role filter naming another
\* role, from a data source holding a user of that role that the other
\* filters admit, and customers were found.
C29_Witness ==
    /\ eval.last.fn = "assemble" /\ eval.last.arg.dataType = "customers"
    /\ eval.last.arg.filters.role = {"ADMIN"}
    /\ eval.last.arg.filters.isActive = {"true"}
    /\ Rec3 \in eval.last.arg.db
    /\ eval.last.val.found = <<Rec1>>

\* The quantities of each stock status
StatusRange(status) ==
    CASE status = "Out of Stock" -> {q \in StockQuantities : q <= 0}
      [] status = "Low Stock" -> {q \in StockQuantities : 1 <= q /\ q <= 5}
      [] status = "Medium Stock" -> {q \in StockQuantities : 6 <= q /\ q <= 20}
      [] status = "Good Stock" -> {q \in StockQuantities : q > 20}

Statuses == {"Out of Stock", "Low Stock", "Medium Stock", "Good Stock"}

\* C30: the status of a product of exportInventory is one of the four, the
\* one whose range holds its quantity, and no other range holds it, whatever
\* the product's other attributes.
C30_StatusByQuantityAlone ==
    eval.last.fn = "inventory" =>
        /\ eval.last.val.status \in Statuses
        /\ \A s \in Statuses :
              eval.last.arg.quantity \in StatusRange(s) <=> s = eval.last.val.status

\* C30 witness: a product at the upper end of a range (quantity 5, low
\* stock) has been formatted.
C30_Witness ==
    /\ eval.last.fn = "inventory"
    /\ eval.last.arg.quantity = 5
    /\ eval.last.val.status = "Low Stock"

====
